---- MODULE Spec2Model ----
(***************************************************************************)
(* Digital Logic Lab Simulator (src/Arduino.cpp): the circuit engine.      *)
(*                                                                         *)
(* The engine state is the record eng: the sketch's global variables       *)
(* (currentCircuit, lastClockState, lastPulseTime, counterValue,           *)
(* flipFlopState) and the levels driven on the output and segment pins.    *)
(* Three specifications share the operators translated from the sketch:    *)
(*   Spec       the sketch as written: setup(), then loop() ticks;         *)
(*   SpecRules  the command handler and the six rule functions called      *)
(*              directly, each rule for the circuits it implements;        *)
(*   SpecPair   two engines, one with an arbitrary history and one fresh,  *)
(*              that handle the same selection and then see the same       *)
(*              samples and timestamps.                                    *)
(* LOW/HIGH are FALSE/TRUE.  millis() is a 32 bit unsigned value, kept as  *)
(* a pair <<high half, low half>> of 16 bit halves.                        *)
(***************************************************************************)
EXTENDS Integers, Sequences, FiniteSets, TLC

VARIABLES eng, eng2, synced, now, advances, sincePulse, sample, edge, command, lastOp, called

vars == <<eng, eng2, synced, now, advances, sincePulse, sample, edge, command, lastOp, called>>

LOW == FALSE
HIGH == TRUE

(* ---------------------------------------------------------------- bounds *)
\* number of low input lines that vary in a sample taken for a gate
GateBits == 3
\* ... for a flip-flop
SeqBits == 3
\* ... for a counter (the rule reads no input line)
CounterBits == 0
\* ... for an adder, the multiplexer, the decoder
WideBits == 5
\* ... in a loop() tick
LoopBits == 1
\* ... after the selection both engines of a pair handle
PairBits == 2
\* how many times the millisecond clock advances in a behaviour of the rules
MaxAdvances == 2
\* how many loop() ticks a behaviour of the sketch has
MaxTicks == 2

(* ------------------------------------------------------------- constants *)
numInputs == 8
numOutputs == 8
numSegments == 7
\* half of an unsigned long: 2^16
Half == 65536
\* the period of the astable multivibrator, in milliseconds
Period == 1000
\* delay(10) at the end of loop()
LoopDelay == 10
CounterModulus == 16

(* ----------------------------------------------------- unsigned long time *)
U32Add(t, d) ==
  LET lo == t[2] + d
  IN  <<(t[1] + (lo \div Half)) % Half, lo % Half>>

U32Sub(a, b) ==
  LET lo == a[2] - b[2]
      borrow == IF lo < 0 THEN 1 ELSE 0
  IN  <<(a[1] - b[1] - borrow + Half) % Half, (lo + Half) % Half>>

\* x >= n for an unsigned long x and 0 <= n < 2^16
U32Ge(x, n) == x[1] > 0 \/ x[2] >= n

\* millis() at the start of a behaviour: just after power-up, or 1500 ms
\* before the 32 bit value wraps around
StartTimes == {<<0, 0>>, <<Half - 1, Half - 1500>>}

\* how far millis() moves between two operations
Deltas == {Period - 1, Period}

\* how long one loop() tick takes
LoopDeltas == {LoopDelay, Period}

(* ---------------------------------------------------------------- strings *)
StartsWith(s, p) == Len(p) <= Len(s) /\ SubSeq(s, 1, Len(p)) = p

IsSpace(c) == c \in {" ", "\t", "\n", "\r", "\f"}

RECURSIVE TrimLeft(_)
TrimLeft(s) ==
  IF Len(s) > 0 /\ IsSpace(SubSeq(s, 1, 1)) THEN TrimLeft(SubSeq(s, 2, Len(s))) ELSE s

RECURSIVE TrimRight(_)
TrimRight(s) ==
  IF Len(s) > 0 /\ IsSpace(SubSeq(s, Len(s), Len(s)))
  THEN TrimRight(SubSeq(s, 1, Len(s) - 1)) ELSE s

\* String::trim()
Trim(s) == TrimRight(TrimLeft(s))

(* ----------------------------------------------------------------- levels *)
B2I(b) == IF b THEN 1 ELSE 0

Bit(v, i) == (v \div (2 ^ i)) % 2

Xor(a, b) == a # b

\* the input vector whose line i carries bit i of n
VecOf(n) == [i \in 0 .. numInputs - 1 |-> Bit(n, i) = 1]

\* the samples in which the k lowest input lines vary and the others are LOW
InputVectors(k) == {VecOf(n) : n \in 0 .. (2 ^ k) - 1}

AllLow(n) == [i \in 0 .. n - 1 |-> LOW]

NoSample == [inputs |-> AllLow(numInputs), clock |-> LOW, reset |-> LOW]

\* what stands in command when no line was read
NoCommand == "\n"

(* ---------------------------------------------------------------- catalog *)
validCircuits ==
  << "AND", "OR", "NOT", "NAND", "NOR", "XOR", "XNOR",
     "Half Adder", "Full Adder", "Multiplexer (MUX)",
     "D Flip-Flop", "JK Flip-Flop",
     "Astable Multivibrator",
     "Binary Up Counter", "Binary Down Counter",
     "BCD Decoder with 7-Segment Display" >>

\* the 16 names of the catalog
CircuitNames == {validCircuits[i] : i \in 1 .. Len(validCircuits)}

\* isValidCircuit that accepts every non-empty line
isValidCircuitAcceptsAny(circuit) == circuit # ""

isValidCircuit(circuit) == \E i \in 1 .. Len(validCircuits) : circuit = validCircuits[i]

digitPatterns == <<63, 6, 91, 79, 102, 109, 125, 7, 127, 111>>

\* the six rules, named by the prefix loop() tests for
Rules == <<"Basic", "Combinational", "Sequential", "Timers", "Counters", "Decoders">>

NoRule == "none"

\* the circuit names each rule function compares currentCircuit with
RuleCircuits(rule) ==
  CASE rule = "Basic" -> {"AND", "OR", "NOT", "NAND", "NOR", "XOR", "XNOR"}
    [] rule = "Combinational" -> {"Half Adder", "Full Adder", "Multiplexer (MUX)"}
    [] rule = "Sequential" -> {"D Flip-Flop", "JK Flip-Flop"}
    [] rule = "Timers" -> {"Astable Multivibrator"}
    [] rule = "Counters" -> {"Binary Up Counter", "Binary Down Counter"}
    [] rule = "Decoders" -> {"BCD Decoder with 7-Segment Display"}
    [] OTHER -> {}

(* ------------------------------------------------------------------ rules *)
\* processBasicGates with XNOR computed as XOR
processBasicGatesXnorAsXor(e, inputs) ==
  LET A == inputs[0]
      B == inputs[1]
      cc == e.currentCircuit
      output ==
        IF cc = "AND" THEN A /\ B
        ELSE IF cc = "OR" THEN A \/ B
        ELSE IF cc = "NOT" THEN ~A
        ELSE IF cc = "NAND" THEN ~(A /\ B)
        ELSE IF cc = "NOR" THEN ~(A \/ B)
        ELSE IF cc = "XOR" THEN Xor(A, B)
        ELSE IF cc = "XNOR" THEN Xor(A, B)
        ELSE LOW
  IN  [e EXCEPT !.outputPins[0] = output]

processBasicGates(e, inputs) ==
  LET A == inputs[0]
      B == inputs[1]
      cc == e.currentCircuit
      output ==
        IF cc = "AND" THEN A /\ B
        ELSE IF cc = "OR" THEN A \/ B
        ELSE IF cc = "NOT" THEN ~A
        ELSE IF cc = "NAND" THEN ~(A /\ B)
        ELSE IF cc = "NOR" THEN ~(A \/ B)
        ELSE IF cc = "XOR" THEN Xor(A, B)
        ELSE IF cc = "XNOR" THEN ~Xor(A, B)
        ELSE LOW
  IN  [e EXCEPT !.outputPins[0] = output]

\* processCombinationalCircuits whose full-adder carry lacks the (A && C) term
processCombinationalCarryMissesAC(e, inputs) ==
  LET A == inputs[0]
      B == inputs[1]
      C == inputs[2]
      cc == e.currentCircuit
  IN  IF cc = "Half Adder"
      THEN [e EXCEPT !.outputPins[0] = Xor(A, B), !.outputPins[1] = A /\ B]
      ELSE IF cc = "Full Adder"
      THEN [e EXCEPT !.outputPins[0] = Xor(Xor(A, B), C),
                     !.outputPins[1] = (A /\ B) \/ (B /\ C)]
      ELSE IF cc = "Multiplexer (MUX)"
      THEN LET S0 == inputs[2]
               S1 == inputs[3]
               output == (~S1 /\ ~S0 /\ A) \/ (~S1 /\ S0 /\ B)
                         \/ (S1 /\ ~S0 /\ C) \/ (S1 /\ S0 /\ inputs[4])
           IN  [e EXCEPT !.outputPins[0] = output]
      ELSE e

\* processCombinationalCircuits whose multiplexer takes S0 and S1 from each other's line
processCombinationalMuxSelectSwapped(e, inputs) ==
  LET A == inputs[0]
      B == inputs[1]
      C == inputs[2]
      cc == e.currentCircuit
  IN  IF cc = "Half Adder"
      THEN [e EXCEPT !.outputPins[0] = Xor(A, B), !.outputPins[1] = A /\ B]
      ELSE IF cc = "Full Adder"
      THEN [e EXCEPT !.outputPins[0] = Xor(Xor(A, B), C),
                     !.outputPins[1] = (A /\ B) \/ (B /\ C) \/ (A /\ C)]
      ELSE IF cc = "Multiplexer (MUX)"
      THEN LET S0 == inputs[3]
               S1 == inputs[2]
               output == (~S1 /\ ~S0 /\ A) \/ (~S1 /\ S0 /\ B)
                         \/ (S1 /\ ~S0 /\ C) \/ (S1 /\ S0 /\ inputs[4])
           IN  [e EXCEPT !.outputPins[0] = output]
      ELSE e

processCombinationalCircuits(e, inputs) ==
  LET A == inputs[0]
      B == inputs[1]
      C == inputs[2]
      cc == e.currentCircuit
  IN  IF cc = "Half Adder"
      THEN [e EXCEPT !.outputPins[0] = Xor(A, B), !.outputPins[1] = A /\ B]
      ELSE IF cc = "Full Adder"
      THEN [e EXCEPT !.outputPins[0] = Xor(Xor(A, B), C),
                     !.outputPins[1] = (A /\ B) \/ (B /\ C) \/ (A /\ C)]
      ELSE IF cc = "Multiplexer (MUX)"
      THEN LET S0 == inputs[2]
               S1 == inputs[3]
               output == (~S1 /\ ~S0 /\ A) \/ (~S1 /\ S0 /\ B)
                         \/ (S1 /\ ~S0 /\ C) \/ (S1 /\ S0 /\ inputs[4])
           IN  [e EXCEPT !.outputPins[0] = output]
      ELSE e

\* flipFlopOnEdge with J tested before J && K, so that J = K = 1 sets instead of toggling
flipFlopOnEdgeSetFirst(e, inputs) ==
  LET cc == e.currentCircuit
  IN  IF cc = "D Flip-Flop" THEN inputs[0]
      ELSE IF cc = "JK Flip-Flop"
      THEN LET J == inputs[0]
               K == inputs[1]
           IN  IF J THEN HIGH
               ELSE IF K THEN LOW
               ELSE e.flipFlopState
      ELSE e.flipFlopState

\* the flip-flop value after the edge-triggered part of the rule
flipFlopOnEdge(e, inputs) ==
  LET cc == e.currentCircuit
  IN  IF cc = "D Flip-Flop" THEN inputs[0]
      ELSE IF cc = "JK Flip-Flop"
      THEN LET J == inputs[0]
               K == inputs[1]
           IN  IF J /\ K THEN ~e.flipFlopState
               ELSE IF J THEN HIGH
               ELSE IF K THEN LOW
               ELSE e.flipFlopState
      ELSE e.flipFlopState

risingEdge(e, clock) == clock = HIGH /\ e.lastClockState = LOW

\* processSequentialCircuits that writes the output before the reset line is applied
processSequentialWritesBeforeReset(e, inputs, clock, reset) ==
  LET edged == IF risingEdge(e, clock) THEN flipFlopOnEdge(e, inputs) ELSE e.flipFlopState
      ff == IF reset = LOW THEN LOW ELSE edged
  IN  [e EXCEPT !.flipFlopState = ff, !.lastClockState = clock, !.outputPins[0] = edged]

\* processSequentialCircuits triggered by the clock level instead of its rising edge
processSequentialLevelTriggered(e, inputs, clock, reset) ==
  LET edged == IF clock = HIGH THEN flipFlopOnEdge(e, inputs) ELSE e.flipFlopState
      ff == IF reset = LOW THEN LOW ELSE edged
  IN  [e EXCEPT !.flipFlopState = ff, !.lastClockState = clock, !.outputPins[0] = ff]

processSequentialCircuits(e, inputs, clock, reset) ==
  LET edged == IF risingEdge(e, clock) THEN flipFlopOnEdge(e, inputs) ELSE e.flipFlopState
      ff == IF reset = LOW THEN LOW ELSE edged
  IN  [e EXCEPT !.flipFlopState = ff, !.lastClockState = clock, !.outputPins[0] = ff]

\* processTimerCircuits that needs more than a full period to have elapsed
processTimerCircuitsStrict(e, currentTime) ==
  IF e.currentCircuit = "Astable Multivibrator"
     /\ U32Ge(U32Sub(currentTime, e.lastPulseTime), Period + 1)
  THEN [e EXCEPT !.outputPins[0] = ~e.outputPins[0], !.lastPulseTime = currentTime]
  ELSE e

processTimerCircuits(e, currentTime) ==
  IF e.currentCircuit = "Astable Multivibrator"
     /\ U32Ge(U32Sub(currentTime, e.lastPulseTime), Period)
  THEN [e EXCEPT !.outputPins[0] = ~e.outputPins[0], !.lastPulseTime = currentTime]
  ELSE e

\* counterOnEdge whose down count lacks the + 16 (the C remainder of -1 is -1)
counterOnEdgeNoWrap(e, v) ==
  IF e.currentCircuit = "Binary Up Counter" THEN (v + 1) % CounterModulus
  ELSE IF e.currentCircuit = "Binary Down Counter" THEN (IF v = 0 THEN -1 ELSE v - 1)
  ELSE v

\* the counter value after a rising edge
counterOnEdge(e, v) ==
  IF e.currentCircuit = "Binary Up Counter" THEN (v + 1) % CounterModulus
  ELSE IF e.currentCircuit = "Binary Down Counter" THEN (v - 1 + CounterModulus) % CounterModulus
  ELSE v

\* processCounterCircuits that only remembers the clock level when it counts
processCounterCircuitsForgetsClock(e, inputs, clock, reset) ==
  LET v0 == IF reset = LOW THEN 0 ELSE e.counterValue
  IN  IF risingEdge(e, clock)
      THEN LET v == counterOnEdge(e, v0)
           IN  [e EXCEPT !.counterValue = v,
                         !.outputPins = [i \in 0 .. numOutputs - 1 |->
                                           IF i < 4 THEN Bit(v, i) = 1 ELSE e.outputPins[i]]]
      ELSE [e EXCEPT !.counterValue = v0, !.lastClockState = clock]

\* processCounterCircuits that applies the reset line after the edge
processCounterCircuitsResetLast(e, inputs, clock, reset) ==
  IF risingEdge(e, clock)
  THEN LET v == IF reset = LOW THEN 0 ELSE counterOnEdge(e, e.counterValue)
       IN  [e EXCEPT !.counterValue = v,
                     !.lastClockState = clock,
                     !.outputPins = [i \in 0 .. numOutputs - 1 |->
                                       IF i < 4 THEN Bit(v, i) = 1 ELSE e.outputPins[i]]]
  ELSE [e EXCEPT !.counterValue = IF reset = LOW THEN 0 ELSE e.counterValue,
                 !.lastClockState = clock]

processCounterCircuits(e, inputs, clock, reset) ==
  LET v0 == IF reset = LOW THEN 0 ELSE e.counterValue
  IN  IF risingEdge(e, clock)
      THEN LET v == counterOnEdge(e, v0)
           IN  [e EXCEPT !.counterValue = v,
                         !.lastClockState = clock,
                         !.outputPins = [i \in 0 .. numOutputs - 1 |->
                                           IF i < 4 THEN Bit(v, i) = 1 ELSE e.outputPins[i]]]
      ELSE [e EXCEPT !.counterValue = v0, !.lastClockState = clock]

constrain(x, lo, hi) == IF x < lo THEN lo ELSE IF x > hi THEN hi ELSE x

\* processDecoderCircuits that reads inputs[0] as the most significant bit
processDecoderCircuitsReversed(e, inputs) ==
  IF e.currentCircuit = "BCD Decoder with 7-Segment Display"
  THEN LET raw == B2I(inputs[0]) * 8 + B2I(inputs[1]) * 4 + B2I(inputs[2]) * 2 + B2I(inputs[3])
           value == constrain(raw, 0, 9)
       IN  [e EXCEPT !.segmentPins = [i \in 0 .. numSegments - 1 |->
                                        Bit(digitPatterns[value + 1], i) = 1]]
  ELSE e

processDecoderCircuits(e, inputs) ==
  IF e.currentCircuit = "BCD Decoder with 7-Segment Display"
  THEN LET raw == B2I(inputs[3]) * 8 + B2I(inputs[2]) * 4 + B2I(inputs[1]) * 2 + B2I(inputs[0])
           value == constrain(raw, 0, 9)
       IN  [e EXCEPT !.segmentPins = [i \in 0 .. numSegments - 1 |->
                                        Bit(digitPatterns[value + 1], i) = 1]]
  ELSE e

(* --------------------------------------------------------------- commands *)
\* resetSystem without the line that clears counterValue
resetSystemKeepsCounter(e, t) ==
  [e EXCEPT !.outputPins = AllLow(numOutputs),
            !.segmentPins = AllLow(numSegments),
            !.flipFlopState = LOW,
            !.lastPulseTime = t]

\* resetSystem without the loop that writes LOW to the output pins
resetSystemKeepsOutputs(e, t) ==
  [e EXCEPT !.segmentPins = AllLow(numSegments),
            !.flipFlopState = LOW,
            !.counterValue = 0,
            !.lastPulseTime = t]

resetSystem(e, t) ==
  [e EXCEPT !.outputPins = AllLow(numOutputs),
            !.segmentPins = AllLow(numSegments),
            !.flipFlopState = LOW,
            !.counterValue = 0,
            !.lastPulseTime = t]

\* handleSerialCommand in which an unknown command falls through to resetSystem
handleSerialCommandInvalidResets(e, line, t) ==
  LET cmd == Trim(line)
  IN  IF cmd = "menu" THEN e
      ELSE IF cmd = "reset" THEN resetSystem(e, t)
      ELSE IF isValidCircuit(cmd) THEN resetSystem([e EXCEPT !.currentCircuit = cmd], t)
      ELSE resetSystem(e, t)

\* handleSerialCommand in which "reset" also goes back to the default circuit
handleSerialCommandResetSelectsDefault(e, line, t) ==
  LET cmd == Trim(line)
  IN  IF cmd = "menu" THEN e
      ELSE IF cmd = "reset" THEN resetSystem([e EXCEPT !.currentCircuit = "AND"], t)
      ELSE IF isValidCircuit(cmd) THEN resetSystem([e EXCEPT !.currentCircuit = cmd], t)
      ELSE e

\* handleSerialCommand() on the line read from the serial port, at time t
handleSerialCommand(e, line, t) ==
  LET cmd == Trim(line)
  IN  IF cmd = "menu" THEN e
      ELSE IF cmd = "reset" THEN resetSystem(e, t)
      ELSE IF isValidCircuit(cmd) THEN resetSystem([e EXCEPT !.currentCircuit = cmd], t)
      ELSE e

\* the lines that arrive on the serial port (without the terminating newline)
Lines ==
  {validCircuits[i] : i \in 1 .. Len(validCircuits)}
  \cup {"menu", "reset", " XOR\r", "and", "Basic"}

(* ------------------------------------------------------------------- loop *)
\* the rule loop() dispatches to for the active circuit
loopRule(e) ==
  LET cc == e.currentCircuit
  IN  IF StartsWith(cc, "Basic") THEN "Basic"
      ELSE IF StartsWith(cc, "Combinational") THEN "Combinational"
      ELSE IF StartsWith(cc, "Sequential") THEN "Sequential"
      ELSE IF StartsWith(cc, "Timers") THEN "Timers"
      ELSE IF StartsWith(cc, "Counters") THEN "Counters"
      ELSE IF StartsWith(cc, "Decoders") THEN "Decoders"
      ELSE NoRule

\* the rule function of the given name, applied to one sample at time t
runRule(rule, e, s, t) ==
  CASE rule = "Basic" -> processBasicGates(e, s.inputs)
    [] rule = "Combinational" -> processCombinationalCircuits(e, s.inputs)
    [] rule = "Sequential" -> processSequentialCircuits(e, s.inputs, s.clock, s.reset)
    [] rule = "Timers" -> processTimerCircuits(e, t)
    [] rule = "Counters" -> processCounterCircuits(e, s.inputs, s.clock, s.reset)
    [] rule = "Decoders" -> processDecoderCircuits(e, s.inputs)
    [] OTHER -> e

\* the clock and reset pins are read by the sequential and counter rules only
readsClock(rule) == rule \in {"Sequential", "Counters"}

\* what a rule reads of the pins: the clock and reset levels stay LOW in the
\* record when the rule does not read them
sampleFor(rule, inputs, clock, reset) ==
  [inputs |-> inputs,
   clock |-> IF readsClock(rule) THEN clock ELSE LOW,
   reset |-> IF readsClock(rule) THEN reset ELSE LOW]

\* sincePulse is the time that has really passed since the last pulse (the last
\* inversion of the astable output, the last reset or circuit selection, or
\* power-up), counted without wrap-around and saturating at Period
saturate(age) == IF age > Period THEN Period ELSE age

\* a reset or a circuit selection restarts the pulse
restartsPulse(line) == Trim(line) = "reset" \/ Trim(line) \in RuleCircuits("Basic")
  \cup RuleCircuits("Combinational") \cup RuleCircuits("Sequential") \cup RuleCircuits("Timers")
  \cup RuleCircuits("Counters") \cup RuleCircuits("Decoders")

\* an evaluation that inverts output line 0 of the astable restarts the pulse
inverted(e0, e1) == e1.outputPins[0] # e0.outputPins[0]

(* ------------------------------------------------------------------ state *)
setup ==
  [currentCircuit |-> "AND",
   lastClockState |-> LOW,
   lastPulseTime |-> <<0, 0>>,
   counterValue |-> 0,
   flipFlopState |-> LOW,
   outputPins |-> AllLow(numOutputs),
   segmentPins |-> AllLow(numSegments)]

Init ==
  /\ eng = setup
  /\ eng2 = setup
  /\ synced = FALSE
  /\ now \in StartTimes
  /\ advances = 0
  /\ sincePulse = (IF now = <<0, 0>> THEN 0 ELSE Period)
  /\ sample = NoSample
  /\ edge = FALSE
  /\ command = NoCommand
  /\ lastOp = "setup"
  /\ called = NoRule

(* ---------------------------------------------------- Spec: loop() ticks *)
\* the levels the clock and reset pins can be read at by a rule that reads them
ClockLevels(rule) == IF readsClock(rule) THEN BOOLEAN ELSE {LOW}

\* One iteration of loop(): the pending line, if any, is handled, the inputs
\* are read, the rule chosen by the startsWith chain runs (and reads the clock
\* and reset pins if it is a clocked rule), and the tick ends d ms later.

LoopIdle ==
  /\ advances < MaxTicks
  /\ \E inputs \in InputVectors(LoopBits), d \in LoopDeltas :
       \E clock \in ClockLevels(loopRule(eng)), reset \in ClockLevels(loopRule(eng)) :
         /\ sample' = sampleFor(loopRule(eng), inputs, clock, reset)
         /\ eng' = runRule(loopRule(eng), eng, sample', now)
         /\ command' = NoCommand
         /\ called' = loopRule(eng)
         /\ lastOp' = "loop"
         /\ now' = U32Add(now, d)
         /\ advances' = advances + 1
         /\ edge' = (readsClock(loopRule(eng)) /\ risingEdge(eng, clock))
         /\ sincePulse' = saturate((IF loopRule(eng) = "Timers" /\ inverted(eng, eng')
                                     THEN 0 ELSE sincePulse) + d)
         /\ UNCHANGED <<eng2, synced>>

LoopCommand ==
  /\ advances < MaxTicks
  /\ \E line \in Lines, inputs \in InputVectors(LoopBits), d \in LoopDeltas :
       LET e1 == handleSerialCommand(eng, line, now)
       IN  \E clock \in ClockLevels(loopRule(e1)), reset \in ClockLevels(loopRule(e1)) :
             /\ sample' = sampleFor(loopRule(e1), inputs, clock, reset)
             /\ eng' = runRule(loopRule(e1), e1, sample', now)
             /\ command' = Trim(line)
             /\ called' = loopRule(e1)
             /\ lastOp' = "loop"
             /\ now' = U32Add(now, d)
             /\ advances' = advances + 1
             /\ edge' = (readsClock(loopRule(e1)) /\ risingEdge(e1, clock))
             /\ sincePulse' = saturate((IF restartsPulse(line)
                                           \/ (loopRule(e1) = "Timers" /\ inverted(e1, eng'))
                                         THEN 0 ELSE sincePulse) + d)
             /\ UNCHANGED <<eng2, synced>>

Next == LoopIdle \/ LoopCommand

Spec == Init /\ [][Next]_vars

(* ------------------------------ SpecSteps: loop() statement by statement *)
\* The same loop(), one statement group per step.  lastOp is the statement
\* group that ran last: "setup" or "delay" (loop() is about to be entered),
\* "assign" (currentCircuit = command ran, resetSystem() has not yet), "command"
\* (handleSerialCommand() returned), "idle" (Serial.available() was 0), "read"
\* (the input pins were read), "evaluate" (the startsWith chain is through).

\* loop() that keeps reading lines while any is available
loopEntryOrAfterCommand(op) == op \in {"setup", "delay", "command"}

\* the serial port is looked at once, on entry to loop()
loopEntry(op) == op \in {"setup", "delay"}

\* Serial.available() > 0: one line is read and handled, up to the assignment
\* of currentCircuit when the line names a circuit
StepCommand ==
  /\ loopEntry(lastOp)
  /\ advances < MaxTicks
  /\ \E line \in Lines :
       LET cmd == Trim(line)
       IN  /\ command' = cmd
           /\ IF cmd = "menu"
                THEN eng' = eng /\ lastOp' = "command" /\ sincePulse' = sincePulse
              ELSE IF cmd = "reset"
                THEN eng' = resetSystem(eng, now) /\ lastOp' = "command" /\ sincePulse' = 0
              ELSE IF isValidCircuit(cmd)
                THEN /\ eng' = [eng EXCEPT !.currentCircuit = cmd]
                     /\ lastOp' = "assign"
                     /\ sincePulse' = sincePulse
              ELSE eng' = eng /\ lastOp' = "command" /\ sincePulse' = sincePulse
  /\ called' = NoRule
  /\ sample' = NoSample
  /\ edge' = FALSE
  /\ UNCHANGED <<eng2, synced, now, advances>>

\* the resetSystem() call that follows the assignment
StepReset ==
  /\ lastOp = "assign"
  /\ eng' = resetSystem(eng, now)
  /\ lastOp' = "command"
  /\ sincePulse' = 0
  /\ UNCHANGED <<eng2, synced, now, advances, sample, edge, command, called>>

\* Serial.available() is 0
StepIdle ==
  /\ loopEntry(lastOp)
  /\ advances < MaxTicks
  /\ command' = NoCommand
  /\ lastOp' = "idle"
  /\ called' = NoRule
  /\ sample' = NoSample
  /\ edge' = FALSE
  /\ UNCHANGED <<eng, eng2, synced, now, advances, sincePulse>>

\* the loop over digitalRead(inputPins[i])
StepRead ==
  /\ lastOp \in {"command", "idle"}
  /\ \E inputs \in InputVectors(LoopBits) :
       sample' = [inputs |-> inputs, clock |-> LOW, reset |-> LOW]
  /\ lastOp' = "read"
  /\ UNCHANGED <<eng, eng2, synced, now, advances, sincePulse, edge, command, called>>

\* the startsWith chain and the rule it calls, if any
StepDispatch ==
  /\ lastOp = "read"
  /\ \E clock \in ClockLevels(loopRule(eng)), reset \in ClockLevels(loopRule(eng)) :
       /\ sample' = sampleFor(loopRule(eng), sample.inputs, clock, reset)
       /\ eng' = runRule(loopRule(eng), eng, sample', now)
       /\ edge' = (readsClock(loopRule(eng)) /\ risingEdge(eng, clock))
  /\ called' = loopRule(eng)
  /\ lastOp' = "evaluate"
  /\ sincePulse' = (IF loopRule(eng) = "Timers" /\ inverted(eng, eng') THEN 0 ELSE sincePulse)
  /\ UNCHANGED <<eng2, synced, now, advances, command>>

\* delay(10)
StepDelay ==
  /\ lastOp = "evaluate"
  /\ now' = U32Add(now, LoopDelay)
  /\ sincePulse' = saturate(sincePulse + LoopDelay)
  /\ advances' = advances + 1
  /\ lastOp' = "delay"
  /\ UNCHANGED <<eng, eng2, synced, sample, edge, command, called>>

NextSteps ==
  \/ StepCommand
  \/ StepReset
  \/ StepIdle
  \/ StepRead
  \/ StepDispatch
  \/ StepDelay

SpecSteps == Init /\ [][NextSteps]_vars

(* ------------------------------- SpecRules: the functions called directly *)
\* handleSerialCommand() on one line, at the current time
HandleSerialCommand ==
  \E line \in Lines :
    /\ eng' = handleSerialCommand(eng, line, now)
    /\ command' = Trim(line)
    /\ lastOp' = "command"
    /\ called' = NoRule
    /\ sample' = NoSample
    /\ edge' = FALSE
    /\ sincePulse' = (IF restartsPulse(line) THEN 0 ELSE sincePulse)
    /\ UNCHANGED <<eng2, synced, now, advances>>

ProcessBasicGates ==
  /\ eng.currentCircuit \in RuleCircuits("Basic")
  /\ \E inputs \in InputVectors(GateBits) :
       /\ sample' = sampleFor("Basic", inputs, LOW, LOW)
       /\ eng' = processBasicGates(eng, inputs)
       /\ called' = "Basic"
       /\ edge' = FALSE
       /\ lastOp' = "evaluate"
       /\ command' = NoCommand
       /\ UNCHANGED <<eng2, synced, now, advances, sincePulse>>

ProcessCombinationalCircuits ==
  /\ eng.currentCircuit \in RuleCircuits("Combinational")
  /\ \E inputs \in InputVectors(WideBits) :
       /\ sample' = sampleFor("Combinational", inputs, LOW, LOW)
       /\ eng' = processCombinationalCircuits(eng, inputs)
       /\ called' = "Combinational"
       /\ edge' = FALSE
       /\ lastOp' = "evaluate"
       /\ command' = NoCommand
       /\ UNCHANGED <<eng2, synced, now, advances, sincePulse>>

ProcessSequentialCircuits ==
  /\ eng.currentCircuit \in RuleCircuits("Sequential")
  /\ \E inputs \in InputVectors(SeqBits), clock \in BOOLEAN, reset \in BOOLEAN :
       /\ sample' = sampleFor("Sequential", inputs, clock, reset)
       /\ eng' = processSequentialCircuits(eng, inputs, clock, reset)
       /\ called' = "Sequential"
       /\ edge' = risingEdge(eng, clock)
       /\ lastOp' = "evaluate"
       /\ command' = NoCommand
       /\ UNCHANGED <<eng2, synced, now, advances, sincePulse>>

ProcessTimerCircuits ==
  /\ eng.currentCircuit \in RuleCircuits("Timers")
  /\ sample' = NoSample
  /\ eng' = processTimerCircuits(eng, now)
  /\ called' = "Timers"
  /\ lastOp' = "evaluate"
  /\ command' = NoCommand
  /\ edge' = FALSE
  /\ sincePulse' = (IF inverted(eng, eng') THEN 0 ELSE sincePulse)
  /\ UNCHANGED <<eng2, synced, now, advances>>

ProcessCounterCircuits ==
  /\ eng.currentCircuit \in RuleCircuits("Counters")
  /\ \E inputs \in InputVectors(CounterBits), clock \in BOOLEAN, reset \in BOOLEAN :
       /\ sample' = sampleFor("Counters", inputs, clock, reset)
       /\ eng' = processCounterCircuits(eng, inputs, clock, reset)
       /\ called' = "Counters"
       /\ edge' = risingEdge(eng, clock)
       /\ lastOp' = "evaluate"
       /\ command' = NoCommand
       /\ UNCHANGED <<eng2, synced, now, advances, sincePulse>>

ProcessDecoderCircuits ==
  /\ eng.currentCircuit \in RuleCircuits("Decoders")
  /\ \E inputs \in InputVectors(WideBits) :
       /\ sample' = sampleFor("Decoders", inputs, LOW, LOW)
       /\ eng' = processDecoderCircuits(eng, inputs)
       /\ called' = "Decoders"
       /\ edge' = FALSE
       /\ lastOp' = "evaluate"
       /\ command' = NoCommand
       /\ UNCHANGED <<eng2, synced, now, advances, sincePulse>>

\* millis() moves on between two operations
AdvanceTime ==
  /\ advances < MaxAdvances
  /\ \E d \in Deltas :
       /\ now' = U32Add(now, d)
       /\ sincePulse' = saturate(sincePulse + d)
  /\ advances' = advances + 1
  /\ lastOp' = "advance"
  /\ edge' = FALSE
  /\ called' = NoRule
  /\ sample' = NoSample
  /\ command' = NoCommand
  /\ UNCHANGED <<eng, eng2, synced>>

NextRules ==
  \/ HandleSerialCommand
  \/ ProcessBasicGates
  \/ ProcessCombinationalCircuits
  \/ ProcessSequentialCircuits
  \/ ProcessTimerCircuits
  \/ ProcessCounterCircuits
  \/ ProcessDecoderCircuits
  \/ AdvanceTime

SpecRules == Init /\ [][NextRules]_vars

(* ------------------------------ SpecPair: two engines, the same selection *)
\* Two executions of the engine.  Before the selection eng has any history the
\* functions allow and eng2 has none (it is as setup() left it); PairSelect gives
\* both the same selection at the same time; from then on both evaluate the
\* selected circuit's rule on the same samples at the same timestamps.
PairBefore == ~synced /\ NextRules

PairSelect ==
  /\ ~synced
  /\ \E line \in CircuitNames :
       /\ eng' = handleSerialCommand(eng, line, now)
       /\ eng2' = handleSerialCommand(eng2, line, now)
       /\ command' = Trim(line)
  /\ synced' = TRUE
  /\ lastOp' = "command"
  /\ called' = NoRule
  /\ sample' = NoSample
  /\ edge' = FALSE
  /\ sincePulse' = 0
  /\ UNCHANGED <<now, advances>>

PairEvaluate ==
  /\ synced
  /\ \E i \in 1 .. Len(Rules) :
       /\ eng.currentCircuit \in RuleCircuits(Rules[i])
       /\ \E inputs \in InputVectors(PairBits) :
            \E clock \in ClockLevels(Rules[i]), reset \in ClockLevels(Rules[i]) :
              /\ sample' = sampleFor(Rules[i], inputs, clock, reset)
              /\ eng' = runRule(Rules[i], eng, sample', now)
              /\ eng2' = runRule(Rules[i], eng2, sample', now)
              /\ edge' = (readsClock(Rules[i]) /\ risingEdge(eng, clock))
              /\ called' = Rules[i]
  /\ lastOp' = "evaluate"
  /\ command' = NoCommand
  /\ sincePulse' = (IF called' = "Timers" /\ inverted(eng, eng') THEN 0 ELSE sincePulse)
  /\ UNCHANGED <<synced, now, advances>>

PairAdvance == synced /\ AdvanceTime

NextPair == PairBefore \/ PairSelect \/ PairEvaluate \/ PairAdvance

SpecPair == Init /\ [][NextPair]_vars

(* ----------------------------------------------------------------- claims *)

\* the state an engine is in right after resetSystem() at the current time
Cleared(e) ==
  /\ e.flipFlopState = LOW
  /\ e.counterValue = 0
  /\ e.lastPulseTime = now
  /\ (\A i \in 0 .. numOutputs - 1 : e.outputPins[i] = LOW)
  /\ (\A i \in 0 .. numSegments - 1 : e.segmentPins[i] = LOW)

\* C1: a tick of loop() with a catalog name as the active circuit runs exactly
\* the rule of the category that name belongs to.
C1_LoopDispatchesByCategory ==
  lastOp = "loop" => eng.currentCircuit \in RuleCircuits(called)

\* C2: right after a command naming a registered circuit is handled, the active
\* circuit is that name, the flip-flop is LOW, the counter is 0, the last-pulse
\* timestamp is the time of the switch and every output and segment line is LOW.
C2_SelectClearsState ==
  (lastOp = "command" /\ command \in CircuitNames)
    => (eng.currentCircuit = command /\ Cleared(eng))

\* a selection was handled after a clocked circuit had counted and had seen the clock HIGH
C2_Witness ==
  /\ lastOp = "command"
  /\ command = "AND"
  /\ eng.currentCircuit = "AND"
  /\ eng.lastClockState = HIGH
  /\ eng.lastPulseTime # <<0, 0>>

\* C3: after the same selection, two executions that see the same samples and
\* timestamps agree on the flip-flop value, the counter value and the output
\* levels in every evaluation, whatever happened before the selection.
C3_NoStaleState ==
  synced => (/\ eng.flipFlopState = eng2.flipFlopState
             /\ eng.counterValue = eng2.counterValue
             /\ eng.outputPins = eng2.outputPins)

\* C4: handling "reset" clears the flip-flop, the counter, the outputs and the
\* segments, sets the last-pulse timestamp to the current time and leaves the
\* active circuit unchanged, from every reachable state.
C4_ResetClearsAndKeepsCircuit ==
  [][(lastOp' = "command" /\ command' = "reset")
       => (eng'.currentCircuit = eng.currentCircuit
           /\ eng'.flipFlopState = LOW
           /\ eng'.counterValue = 0
           /\ eng'.lastPulseTime = now'
           /\ now' = now
           /\ (\A i \in 0 .. numOutputs - 1 : eng'.outputPins[i] = LOW)
           /\ (\A i \in 0 .. numSegments - 1 : eng'.segmentPins[i] = LOW))]_vars

\* "reset" was handled while a counter, selected after power-up, was active and
\* had seen the clock HIGH
C4_Witness ==
  /\ lastOp = "command"
  /\ command = "reset"
  /\ eng.currentCircuit = "Binary Down Counter"
  /\ eng.lastClockState = HIGH
  /\ eng.counterValue = 0

\* the truth tables of the gates: the input pairs <<A, B>> for which the output is HIGH
TruthTable(gate) ==
  CASE gate = "AND" -> {<<HIGH, HIGH>>}
    [] gate = "OR" -> {<<LOW, HIGH>>, <<HIGH, LOW>>, <<HIGH, HIGH>>}
    [] gate = "NOT" -> {<<LOW, LOW>>, <<LOW, HIGH>>}
    [] gate = "NAND" -> {<<LOW, LOW>>, <<LOW, HIGH>>, <<HIGH, LOW>>}
    [] gate = "NOR" -> {<<LOW, LOW>>}
    [] gate = "XOR" -> {<<LOW, HIGH>>, <<HIGH, LOW>>}
    [] gate = "XNOR" -> {<<LOW, LOW>>, <<HIGH, HIGH>>}

\* C10: an evaluation of the BasicGate rule drives output line 0 to the truth-table
\* value of the active gate for A = inputs[0], B = inputs[1], whatever the other
\* inputs, the clock and the persisted state are.
C10_GatesMatchTruthTables ==
  (lastOp = "evaluate" /\ called = "Basic")
    => (eng.outputPins[0] = (<<sample.inputs[0], sample.inputs[1]>> \in TruthTable(eng.currentCircuit)))

\* XNOR was evaluated on A = B = LOW with another input HIGH and a stale clock level
C10_Witness ==
  /\ lastOp = "evaluate"
  /\ called = "Basic"
  /\ eng.currentCircuit = "XNOR"
  /\ sample.inputs[0] = LOW /\ sample.inputs[1] = LOW /\ sample.inputs[2] = HIGH
  /\ eng.lastClockState = HIGH
  /\ eng.outputPins[0] = HIGH

\* a rising clock edge has just been sampled: the stored level is LOW, the new one HIGH
Rising == eng.lastClockState = LOW /\ sample'.clock = HIGH

\* C5: with D Flip-Flop active, an evaluation with the reset line LOW ends with the
\* value LOW (even on a rising edge with input[0] HIGH); with the reset line HIGH
\* the value becomes input[0] on a rising edge and is held otherwise.
C5_DFlipFlop ==
  [][(lastOp' = "evaluate" /\ called' = "Sequential" /\ eng.currentCircuit = "D Flip-Flop")
       => (/\ sample'.reset = LOW => eng'.flipFlopState = LOW
           /\ (sample'.reset = HIGH /\ Rising) => eng'.flipFlopState = sample'.inputs[0]
           /\ (sample'.reset = HIGH /\ ~Rising) => eng'.flipFlopState = eng.flipFlopState
           /\ (eng'.flipFlopState = HIGH /\ eng.flipFlopState = LOW) => Rising)]_vars

\* the D flip-flop saw a rising edge with input[0] HIGH while the reset line was LOW
C5_Witness ==
  /\ lastOp = "evaluate"
  /\ called = "Sequential"
  /\ eng.currentCircuit = "D Flip-Flop"
  /\ edge
  /\ sample.reset = LOW
  /\ sample.inputs[0] = HIGH
  /\ eng.flipFlopState = LOW

\* how many successive clock pulses the alternation of the JK flip-flop is followed for
PulseRuns == 4

\* one clock pulse seen by two evaluations of the sequential rule: clock LOW, then
\* clock HIGH, with the reset line HIGH
sequentialPulse(e, inputs) ==
  processSequentialCircuits(processSequentialCircuits(e, inputs, LOW, HIGH), inputs, HIGH, HIGH)

RECURSIVE sequentialPulses(_, _, _)
sequentialPulses(e, inputs, n) ==
  IF n = 0 THEN e ELSE sequentialPulses(sequentialPulse(e, inputs), inputs, n - 1)

\* C6: with JK Flip-Flop active and the reset line HIGH, a rising edge inverts the
\* value for J=K=1, sets it for J=1,K=0, clears it for J=0,K=1 and holds it for
\* J=K=0; an evaluation without a rising edge holds it; and with J=K=1 held the
\* value alternates on successive rising edges.
C6_JKFlipFlop ==
  /\ [](eng.currentCircuit = "JK Flip-Flop"
          => \A n \in 1 .. PulseRuns :
               sequentialPulses(eng, VecOf(3), n).flipFlopState
                 = (IF n % 2 = 1 THEN ~eng.flipFlopState ELSE eng.flipFlopState))
  /\ [][(lastOp' = "evaluate" /\ called' = "Sequential" /\ eng.currentCircuit = "JK Flip-Flop"
         /\ sample'.reset = HIGH)
          => LET J == sample'.inputs[0]
                 K == sample'.inputs[1]
             IN  /\ (Rising /\ J /\ K) => eng'.flipFlopState = ~eng.flipFlopState
                 /\ (Rising /\ J /\ ~K) => eng'.flipFlopState = HIGH
                 /\ (Rising /\ ~J /\ K) => eng'.flipFlopState = LOW
                 /\ (Rising /\ ~J /\ ~K) => eng'.flipFlopState = eng.flipFlopState
                 /\ ~Rising => eng'.flipFlopState = eng.flipFlopState]_vars

\* the JK flip-flop toggled from HIGH back to LOW on a rising edge with J=K=1
C6_Witness ==
  /\ lastOp = "evaluate"
  /\ called = "Sequential"
  /\ eng.currentCircuit = "JK Flip-Flop"
  /\ edge
  /\ sample.reset = HIGH
  /\ sample.inputs[0] = HIGH /\ sample.inputs[1] = HIGH
  /\ eng.flipFlopState = LOW

\* one clock pulse seen by two evaluations of the counter rule, reset line HIGH
counterPulse(e) ==
  processCounterCircuits(processCounterCircuits(e, AllLow(numInputs), LOW, HIGH),
                         AllLow(numInputs), HIGH, HIGH)

RECURSIVE counterPulses(_, _)
counterPulses(e, n) == IF n = 0 THEN e ELSE counterPulses(counterPulse(e), n - 1)

\* C7: the counter value is always in 0..15; with the reset line HIGH a rising edge
\* adds 1 modulo 16 for Binary Up Counter and subtracts 1 modulo 16 for Binary Down
\* Counter (0 goes to 15, never to -1); 16 rising edges in a row bring the up
\* counter back to the value it started from.
C7_CounterWraps ==
  /\ [](eng.counterValue \in 0 .. 15)
  /\ [](eng.currentCircuit = "Binary Up Counter"
          => counterPulses(eng, 16).counterValue = eng.counterValue)
  /\ [][(lastOp' = "evaluate" /\ called' = "Counters" /\ Rising /\ sample'.reset = HIGH)
          => /\ eng.currentCircuit = "Binary Up Counter"
                  => eng'.counterValue = (IF eng.counterValue = 15 THEN 0 ELSE eng.counterValue + 1)
             /\ eng.currentCircuit = "Binary Down Counter"
                  => eng'.counterValue = (IF eng.counterValue = 0 THEN 15 ELSE eng.counterValue - 1)]_vars

\* the up counter has wrapped: a rising edge with the reset line HIGH left it at 0
C7_Witness ==
  /\ lastOp = "evaluate"
  /\ called = "Counters"
  /\ eng.currentCircuit = "Binary Up Counter"
  /\ edge
  /\ sample.reset = HIGH
  /\ eng.counterValue = 0

\* C8: after every evaluation of the Counter rule output line i shows bit i of the
\* counter value, for i in 0..3.
C8_OutputsShowCounter ==
  (lastOp = "evaluate" /\ called = "Counters")
    => \A i \in 0 .. 3 : eng.outputPins[i] = (Bit(eng.counterValue, i) = 1)

\* C9: an evaluation of the Timer rule inverts output line 0 exactly when at least
\* 1000 ms have really passed since the last pulse (also across the wrap-around of
\* millis()), and then records the current time as the last pulse; otherwise it
\* changes nothing.
C9_AstableInvertsAtPeriod ==
  [][(lastOp' = "evaluate" /\ called' = "Timers")
       => (/\ inverted(eng, eng') <=> sincePulse >= 1000
           /\ inverted(eng, eng') => eng'.lastPulseTime = now
           /\ ~inverted(eng, eng') => eng' = eng)]_vars

\* the astable output went HIGH in an evaluation made after millis() had wrapped around
C9_Witness ==
  /\ lastOp = "evaluate"
  /\ called = "Timers"
  /\ eng.outputPins[0] = HIGH
  /\ eng.lastPulseTime = now
  /\ now[1] = 0
  /\ now[2] > 0 /\ now[2] < 998

\* the arithmetic value of the first n input lines taken as single bits and added
SumOfInputs(n) == IF n = 2 THEN B2I(sample.inputs[0]) + B2I(sample.inputs[1])
                  ELSE B2I(sample.inputs[0]) + B2I(sample.inputs[1]) + B2I(sample.inputs[2])

\* C11: an evaluation of the Combinational rule with Half Adder active drives output
\* line 0 to A xor B and line 1 to A and B; with Full Adder active line 0 to
\* A xor B xor C and line 1 to the majority of A, B, C; so line 0 plus twice line 1
\* is the arithmetic sum of the inputs.
C11_AddersAdd ==
  (lastOp = "evaluate" /\ called = "Combinational")
    => LET A == sample.inputs[0]
           B == sample.inputs[1]
           C == sample.inputs[2]
           sum == eng.outputPins[0]
           carry == eng.outputPins[1]
       IN  /\ eng.currentCircuit = "Half Adder"
                => /\ sum = (A # B)
                   /\ carry = (A /\ B)
                   /\ B2I(sum) + 2 * B2I(carry) = SumOfInputs(2)
           /\ eng.currentCircuit = "Full Adder"
                => /\ sum = ((A # B) # C)
                   /\ carry = (Cardinality({i \in 0 .. 2 : sample.inputs[i]}) >= 2)
                   /\ B2I(sum) + 2 * B2I(carry) = SumOfInputs(3)

\* the full adder added 1 + 0 + 1: sum 0, carry 1
C11_Witness ==
  /\ lastOp = "evaluate"
  /\ called = "Combinational"
  /\ eng.currentCircuit = "Full Adder"
  /\ sample.inputs[0] = HIGH /\ sample.inputs[1] = LOW /\ sample.inputs[2] = HIGH
  /\ eng.outputPins[0] = LOW
  /\ eng.outputPins[1] = HIGH

\* C12: an evaluation of the Combinational rule with Multiplexer (MUX) active drives
\* output line 0 to the data line the select lines S1 = inputs[3], S0 = inputs[2]
\* choose: inputs[0] for 00, inputs[1] for 01, inputs[2] for 10, inputs[4] for 11.
C12_MuxSelects ==
  (lastOp = "evaluate" /\ called = "Combinational" /\ eng.currentCircuit = "Multiplexer (MUX)")
    => LET S1 == sample.inputs[3]
           S0 == sample.inputs[2]
           chosen == IF ~S1 /\ ~S0 THEN 0
                     ELSE IF ~S1 /\ S0 THEN 1
                     ELSE IF S1 /\ ~S0 THEN 2
                     ELSE 4
       IN  eng.outputPins[0] = sample.inputs[chosen]

\* the multiplexer chose B = LOW with S1 = 0, S0 = 1 while A and D were HIGH
C12_Witness ==
  /\ lastOp = "evaluate"
  /\ called = "Combinational"
  /\ eng.currentCircuit = "Multiplexer (MUX)"
  /\ sample.inputs[3] = LOW /\ sample.inputs[2] = HIGH
  /\ sample.inputs[1] = LOW
  /\ sample.inputs[0] = HIGH /\ sample.inputs[4] = HIGH
  /\ eng.outputPins[0] = LOW

\* the segments (a = 0 .. g = 6) lit for each digit 0..9, as in the table's comments
LitSegments ==
  << {0, 1, 2, 3, 4, 5}, {1, 2}, {0, 1, 3, 4, 6}, {0, 1, 2, 3, 6}, {1, 2, 5, 6},
     {0, 2, 3, 5, 6}, {0, 2, 3, 4, 5, 6}, {0, 1, 2}, {0, 1, 2, 3, 4, 5, 6}, {0, 1, 2, 3, 5, 6} >>

\* the value encoded on inputs[0..3], inputs[3] most significant
SampledValue ==
  (IF sample.inputs[3] THEN 8 ELSE 0) + (IF sample.inputs[2] THEN 4 ELSE 0)
  + (IF sample.inputs[1] THEN 2 ELSE 0) + (IF sample.inputs[0] THEN 1 ELSE 0)

\* C13: an evaluation of the Decoder rule lights exactly the segments of the digit
\* min(v, 9) for the value v on inputs[0..3]: 0..9 show themselves, 10..15 show 9.
C13_DecoderShowsDigit ==
  (lastOp = "evaluate" /\ called = "Decoders")
    => LET digit == IF SampledValue > 9 THEN 9 ELSE SampledValue
       IN  \A i \in 0 .. 6 : eng.segmentPins[i] = (i \in LitSegments[digit + 1])

\* the decoder was given 12 (inputs[3] and inputs[2] HIGH) and shows 9: segment e is dark
C13_Witness ==
  /\ lastOp = "evaluate"
  /\ called = "Decoders"
  /\ sample.inputs[3] = HIGH /\ sample.inputs[2] = HIGH
  /\ sample.inputs[1] = LOW /\ sample.inputs[0] = LOW
  /\ eng.segmentPins[4] = LOW
  /\ eng.segmentPins[6] = HIGH
  /\ eng.lastClockState = HIGH

\* C14: "menu" and every command that is neither "reset" nor exactly a registered
\* circuit name leave the engine as it was: the active circuit, the flip-flop, the
\* counter, the last clock level, the last-pulse timestamp, the outputs and segments.
C14_OtherCommandsChangeNothing ==
  [][(lastOp' = "command" /\ command' # "reset" /\ command' \notin CircuitNames)
       => eng' = eng]_vars

\* "and" (not "AND") was handled while the up counter showed a non-zero value
C14_Witness ==
  /\ lastOp = "command"
  /\ command = "and"
  /\ eng.currentCircuit = "Binary Up Counter"
  /\ eng.counterValue = 3
  /\ eng.outputPins[0] = HIGH /\ eng.outputPins[1] = HIGH
  /\ eng.lastClockState = HIGH

\* C15: the active circuit is always one of the 16 registered names; it is AND at
\* startup and changes only in a tick that handles a command naming a registered
\* circuit, to that name.
C15_ActiveCircuitRegistered ==
  /\ [](eng.currentCircuit \in CircuitNames)
  /\ [](lastOp = "setup" => eng.currentCircuit = "AND")
  /\ [][eng'.currentCircuit # eng.currentCircuit
          => (command' \in CircuitNames /\ eng'.currentCircuit = command')]_vars

\* a tick handled the unknown command "Basic" after an earlier tick had selected XOR
C15_Witness ==
  /\ lastOp = "loop"
  /\ command = "Basic"
  /\ eng.currentCircuit = "XOR"

\* C16: while a Sequential circuit is active, output line 0 equals the flip-flop
\* value after every evaluation of the Sequential rule and after every reset or
\* circuit selection.
C16_OutputIsFlipFlop ==
  eng.currentCircuit \in {"D Flip-Flop", "JK Flip-Flop"}
    => eng.outputPins[0] = eng.flipFlopState

\* the JK flip-flop was set on a rising edge and output line 0 is HIGH
C16_Witness ==
  /\ lastOp = "evaluate"
  /\ called = "Sequential"
  /\ eng.currentCircuit = "JK Flip-Flop"
  /\ edge
  /\ eng.flipFlopState = HIGH
  /\ eng.outputPins[0] = HIGH

\* loop() is about to be entered: setup() or delay(10) ran last
AtLoopEntry == lastOp \in {"setup", "delay"}

\* C17: in one iteration of loop() at most one line is consumed, on entry; when
\* it names a circuit or is "reset" it is fully applied (active circuit set, state
\* cleared, outputs zeroed) when the inputs are read and when the dispatch chain
\* runs; the step after the assignment of the active circuit is the reset, never
\* an evaluation, and the dispatch chain runs only after the inputs were read.
C17_CommandAppliedBeforeEvaluate ==
  /\ [](lastOp = "read" /\ command \in CircuitNames
          => (eng.currentCircuit = command /\ Cleared(eng)))
  /\ [](lastOp = "read" /\ command = "reset" => Cleared(eng))
  /\ [][command' # command => (AtLoopEntry /\ lastOp' # "evaluate")]_vars
  /\ [][lastOp' \in {"assign", "command"} /\ lastOp # "assign" => AtLoopEntry]_vars
  /\ [][lastOp = "assign"
          => (lastOp' = "command" /\ called' = NoRule /\ command' = command
              /\ eng'.currentCircuit = command /\ Cleared(eng'))]_vars
  /\ [][lastOp' = "evaluate"
          => (lastOp = "read" /\ command' = command
              /\ (command \in CircuitNames => eng.currentCircuit = command))]_vars

\* the second iteration of loop() consumed "JK Flip-Flop" and has read the inputs
C17_Witness ==
  /\ lastOp = "read"
  /\ advances = 1
  /\ command = "JK Flip-Flop"
  /\ eng.currentCircuit = "JK Flip-Flop"
  /\ sample.inputs[0] = HIGH

\* how many consecutive evaluations the clock is held at one level for
HoldTicks == 3

\* n consecutive evaluations of the counter rule with the clock held at one level
\* and the reset line HIGH
RECURSIVE counterHeld(_, _, _)
counterHeld(e, level, n) ==
  IF n = 0 THEN e
  ELSE counterHeld(processCounterCircuits(e, AllLow(numInputs), level, HIGH), level, n - 1)

\* the same for the sequential rule
RECURSIVE sequentialHeld(_, _, _, _)
sequentialHeld(e, inputs, level, n) ==
  IF n = 0 THEN e
  ELSE sequentialHeld(processSequentialCircuits(e, inputs, level, HIGH), inputs, level, n - 1)

\* the counter value one count away from v in the active counter's direction
OneCount(v) ==
  IF eng.currentCircuit = "Binary Up Counter" THEN (IF v = 15 THEN 0 ELSE v + 1)
  ELSE (IF v = 0 THEN 15 ELSE v - 1)

\* C18: every evaluation of the Sequential and of the Counter rule ends with the
\* stored clock level equal to the sampled one; with the reset line HIGH the
\* flip-flop and the counter change only in an evaluation whose stored level was
\* LOW and whose sampled level is HIGH, and the counter then moves by one count;
\* so a clock seen LOW once and then HIGH for 1..HoldTicks evaluations in a row
\* moves the counter by exactly one count and toggles the JK flip-flop (J=K=1)
\* exactly once, and a clock held LOW changes neither.
C18_EdgeDetection ==
  /\ [](lastOp = "evaluate" /\ called \in {"Sequential", "Counters"}
          => eng.lastClockState = sample.clock)
  /\ [][(lastOp' = "evaluate" /\ called' = "Counters" /\ sample'.reset = HIGH)
          => /\ ~Rising => eng'.counterValue = eng.counterValue
             /\ Rising => eng'.counterValue = OneCount(eng.counterValue)]_vars
  /\ [][(lastOp' = "evaluate" /\ called' = "Sequential" /\ sample'.reset = HIGH /\ ~Rising)
          => eng'.flipFlopState = eng.flipFlopState]_vars
  /\ [](eng.currentCircuit \in {"Binary Up Counter", "Binary Down Counter"}
          => \A n \in 1 .. HoldTicks :
               /\ counterHeld(counterHeld(eng, LOW, 1), HIGH, n).counterValue
                    = OneCount(eng.counterValue)
               /\ counterHeld(eng, LOW, n).counterValue = eng.counterValue)
  /\ [](eng.currentCircuit = "JK Flip-Flop"
          => \A n \in 1 .. HoldTicks :
               /\ sequentialHeld(sequentialHeld(eng, VecOf(3), LOW, 1), VecOf(3), HIGH, n).flipFlopState
                    = ~eng.flipFlopState
               /\ sequentialHeld(eng, VecOf(3), LOW, n).flipFlopState = eng.flipFlopState)

\* the counter rule saw the clock HIGH again right after it had counted on the
\* rising edge: the stored level was already HIGH and the value stayed at 1
C18_Witness ==
  /\ lastOp = "evaluate"
  /\ called = "Counters"
  /\ eng.currentCircuit = "Binary Up Counter"
  /\ sample.clock = HIGH
  /\ sample.reset = HIGH
  /\ ~edge
  /\ eng.lastClockState = HIGH
  /\ eng.counterValue = 1

\* C19: in an evaluation with the reset line LOW and a rising clock edge, the
\* Sequential rule ends with the flip-flop value (and output line 0) LOW, and the
\* Counter rule ends with the counter at 1 for Binary Up Counter and at 15 for
\* Binary Down Counter.
C19_ResetEdgeOrder ==
  /\ [][(lastOp' = "evaluate" /\ called' = "Sequential" /\ Rising /\ sample'.reset = LOW)
          => (eng'.flipFlopState = LOW /\ eng'.outputPins[0] = LOW)]_vars
  /\ [][(lastOp' = "evaluate" /\ called' = "Counters" /\ Rising /\ sample'.reset = LOW)
          => eng'.counterValue
               = (IF eng.currentCircuit = "Binary Up Counter" THEN 1 ELSE 15)]_vars

\* the down counter sits at 15 after an evaluation with a rising edge and reset LOW
C19_Witness ==
  /\ lastOp = "evaluate"
  /\ called = "Counters"
  /\ eng.currentCircuit = "Binary Down Counter"
  /\ edge
  /\ sample.reset = LOW
  /\ eng.counterValue = 15

\* the number of output lines the active circuit drives
OutputWidth ==
  IF eng.currentCircuit \in {"Half Adder", "Full Adder"} THEN 2
  ELSE IF eng.currentCircuit \in {"Binary Up Counter", "Binary Down Counter"} THEN 4
  ELSE IF eng.currentCircuit = "BCD Decoder with 7-Segment Display" THEN 0
  ELSE 1

\* C20: the output lines above the active circuit's width (1 for a gate, the
\* multiplexer, a flip-flop and the astable; 2 for the adders; 4 for the counters;
\* 0 for the decoder) are LOW, and the 7 segment lines are LOW unless the decoder
\* is active, after any sequence of selections, resets and evaluations.
C20_UndrivenLinesLow ==
  /\ \A i \in OutputWidth .. numOutputs - 1 : eng.outputPins[i] = LOW
  /\ (eng.currentCircuit # "BCD Decoder with 7-Segment Display"
        => \A i \in 0 .. numSegments - 1 : eng.segmentPins[i] = LOW)

\* AND drives line 0 HIGH after a clocked circuit had been active and evaluated
\* with its clock HIGH
C20_Witness ==
  /\ lastOp = "evaluate"
  /\ called = "Basic"
  /\ eng.currentCircuit = "AND"
  /\ eng.outputPins[0] = HIGH
  /\ eng.lastClockState = HIGH

====
